---- MODULE Spec2Model ----
(***************************************************************************)
(* Transaction processing of the banking service                           *)
(* (handlers.CreateTransaction, src/database/database.go:552-641) over the *)
(* SQLite store opened by InitDatabase (src/database/database.go:17-59).   *)
(*                                                                         *)
(* Every HTTP request runs in its own goroutine and, inside                *)
(* db.Transaction, on its own pooled connection (SetMaxOpenConns(100)).    *)
(* gorm's db.Transaction issues a plain BEGIN (deferred), so a connection  *)
(* takes SQLite's database-wide file locks lazily:                         *)
(*   SELECT  -> SHARED      (refused while another holds PENDING/EXCLUSIVE,*)
(*                           the busy handler then waits)                  *)
(*   UPDATE  -> RESERVED    (refused while another holds RESERVED or more; *)
(*                           a connection that already holds SHARED gets   *)
(*                           SQLITE_BUSY at once, the busy handler is not  *)
(*                           invoked for a lock upgrade)                   *)
(*   COMMIT  -> PENDING, then EXCLUSIVE once no other connection holds     *)
(*              SHARED (the busy handler waits), write, release.           *)
(* Uncommitted writes stay in the connection's journal and reach the       *)
(* tables at COMMIT; ROLLBACK discards them.  A wait in the busy handler   *)
(* is a disabled step: the driver's busy timeout is taken to outlast the   *)
(* few statements another request needs to release its lock.               *)
(*                                                                         *)
(* A request is numbered when its handler starts.  Binding and the two     *)
(* validations touch nothing shared and are one step with what follows     *)
(* them; when a handler has answered, its locals are gone and only the     *)
(* response remains.                                                       *)
(*                                                                         *)
(* Money is float64 in the source; the model counts whole minor units.     *)
(***************************************************************************)
EXTENDS Integers, Sequences, FiniteSets, TLC

\* ---- bounds ----
NumRequests == 2
MaxOpenConns == 2
NumAccounts == 2
MaxBalance == 1
MaxAmount == 1
NumTxnIDs == 2

Requests == 1..NumRequests
AccountIDs == 1..NumAccounts
Amounts == (0 - 1)..MaxAmount
TxnIDs == 1..NumTxnIDs
\* the "transaction_id" a request body may carry: none, or a client's own
\* string, which is not one generateTransactionID returns
ClientTransactionIDs == {0, NumTxnIDs + 1}

\* ---- program constants ----
validTypes == <<"deposit", "withdrawal", "transfer", "payment">>
RequestTypes == {"deposit", "withdrawal", "transfer", "payment", "Deposit"}
Statuses == {"active", "inactive"}

StatusBadRequest == 400
StatusNotFound == 404
StatusInternalServerError == 500
StatusCreated == 201

NoAccount == [ID |-> 0, Balance |-> 0, Status |-> ""]
NoTransaction == [ID |-> 0, TransactionID |-> 0, AccountID |-> 0,
                  TransactionType |-> "", Amount |-> 0,
                  BalanceBefore |-> 0, BalanceAfter |-> 0]

\* The clients' workload: arbitrary requests, or NumRequests requests that
\* all withdraw the same amount from the same account.
AnyWorkload == [kind |-> "any", AccountID |-> 0, Amount |-> 0]
RaceWorkloads ==
    [kind : {"race"}, AccountID : AccountIDs, Amount : 1..MaxAmount]

VARIABLES
    accounts,     \* accounts table: id -> [Balance, Status] (committed rows)
    records,      \* transactions table, in insertion order (committed rows)
    opening,      \* balance each account row had when the service started
    workload,     \* what the clients send (fixed for a run)
    pc,           \* position of each request's handler
    account,      \* handler local: the models.Account read by tx.First
    transaction,  \* handler local: the models.Transaction bound and built
    err,          \* the error returned by the db.Transaction closure
    lock,         \* SQLite file lock held by each request's connection
    journal,      \* tables written in the open transaction, not yet committed
    outcome       \* the HTTP response written by c.JSON

vars == <<accounts, records, opening, workload, pc, account, transaction, err,
          lock, journal, outcome>>
store == <<accounts, records>>

\* ---- pure helpers ----
\* strings.EqualFold on the request types of the model
ToLower(s) == IF s = "Deposit" THEN "deposit" ELSE s

RECURSIVE containsFold(_, _)
containsFold(slice, item) ==
    IF slice = <<>> THEN FALSE
    ELSE IF ToLower(Head(slice)) = ToLower(item) THEN TRUE
    ELSE containsFold(Tail(slice), item)

RECURSIVE contains(_, _)
contains(slice, item) ==
    IF slice = <<>> THEN FALSE
    ELSE IF Head(slice) = item THEN TRUE
    ELSE contains(Tail(slice), item)

AmountInvalidStrict(amount) == amount < 0

AmountInvalid(amount) == amount <= 0

StatusBlocksDebitsOnly(type, status) ==
    type # "deposit" /\ status # "active"

StatusBlocks(type, status) == status # "active"

InsufficientWithdrawalOnly(type, balance, amount) ==
    CASE type = "deposit" -> FALSE
      [] type = "withdrawal" -> balance < amount
      [] OTHER -> FALSE

Insufficient(type, balance, amount) ==
    CASE type = "deposit" -> FALSE
      [] type = "withdrawal" -> balance < amount
      [] type \in {"transfer", "payment"} -> balance < amount
      [] OTHER -> FALSE

applyEffectCredit(balance, type, amount) ==
    CASE type = "deposit" -> balance + amount
      [] type = "withdrawal" -> balance - amount
      [] type \in {"transfer", "payment"} -> balance + amount
      [] OTHER -> balance

applyEffect(balance, type, amount) ==
    CASE type = "deposit" -> balance + amount
      [] type = "withdrawal" -> balance - amount
      [] type \in {"transfer", "payment"} -> balance - amount
      [] OTHER -> balance

Response(status, error, txn) ==
    [status |-> status, error |-> error, transaction |-> txn]

NoResponse == Response(0, "", NoTransaction)

\* the responses of lines 564, 570, 625, 629, 632
InvalidTransactionType ==
    Response(StatusBadRequest, "Invalid transaction type", NoTransaction)
InvalidAmount ==
    Response(StatusBadRequest, "Transaction amount must be positive",
             NoTransaction)
AccountNotFound ==
    Response(StatusNotFound, "Account not found", NoTransaction)
InsufficientFunds ==
    Response(StatusBadRequest,
             "Insufficient balance or invalid account status", NoTransaction)
AccountNotActive ==
    Response(StatusBadRequest,
             "Insufficient balance or invalid account status", NoTransaction)
StorageError ==
    Response(StatusInternalServerError, "Failed to process transaction",
             NoTransaction)

ErrorResponseNoNotFound(e) ==
    IF e = "ErrInvalidData"
    THEN Response(StatusBadRequest,
                  "Insufficient balance or invalid account status",
                  NoTransaction)
    ELSE Response(StatusInternalServerError,
                  "Failed to process transaction", NoTransaction)

\* lines 623-634 without the final branch: an unclassified error falls
\* through to the success response of line 636
ErrorResponseFallsThrough(e) ==
    IF e = "ErrRecordNotFound"
    THEN Response(StatusNotFound, "Account not found", NoTransaction)
    ELSE IF e = "ErrInvalidData"
    THEN Response(StatusBadRequest,
                  "Insufficient balance or invalid account status",
                  NoTransaction)
    ELSE Response(StatusCreated, "", NoTransaction)

ErrorResponse(e) ==
    IF e = "ErrRecordNotFound"
    THEN Response(StatusNotFound, "Account not found", NoTransaction)
    ELSE IF e = "ErrInvalidData"
    THEN Response(StatusBadRequest,
                  "Insufficient balance or invalid account status",
                  NoTransaction)
    ELSE Response(StatusInternalServerError,
                  "Failed to process transaction", NoTransaction)

SuccessResponse(txn) == Response(StatusCreated, "", txn)

\* ---- the store ----
Row(id) ==
    IF id \in DOMAIN accounts
    THEN [ID |-> id, Balance |-> accounts[id].Balance,
          Status |-> accounts[id].Status]
    ELSE NoAccount

FirstErrorIgnored(id) == "nil"

FirstError(id) ==
    IF id \in DOMAIN accounts THEN "nil" ELSE "ErrRecordNotFound"

UniqueTransactionID(id) ==
    \A i \in 1..Len(records) : records[i].TransactionID # id

\* line 608 guarded by `if transaction.TransactionID == ""`
assignTransactionIDIfEmpty(bound, generated) ==
    IF bound = 0 THEN generated ELSE bound

\* line 608: the generated identifier replaces whatever was bound
assignTransactionID(bound, generated) == generated

\* ---- SQLite file locking ----
Others(p) == Requests \ {p}
CanShare(p) == \A q \in Others(p) : lock[q] \notin {"PENDING", "EXCLUSIVE"}
CanReserve(p) ==
    \A q \in Others(p) : lock[q] \notin {"RESERVED", "PENDING", "EXCLUSIVE"}
CanExclude(p) == \A q \in Others(p) : lock[q] = "NONE"

\* db.First instead of tx.First: the read lock is released with the statement
LockAfterFirstAutocommit(p) == lock

LockAfterFirst(p) == [lock EXCEPT ![p] = "SHARED"]

\* ---- connection pool ----
InTx(q) == pc[q] \in {"first", "process", "save", "create", "commit", "sync",
                      "rollback"}
ConnAvailable == Cardinality({q \in Requests : InTx(q)}) < MaxOpenConns

\* ---- initial state ----
Inputs ==
    IF workload.kind = "race"
    THEN {<<workload.AccountID, "withdrawal", workload.Amount>>}
    ELSE AccountIDs \X RequestTypes \X Amounts

Init ==
    /\ \E k \in 0..NumAccounts :
          accounts \in [1..k -> [Balance : 0..MaxBalance, Status : Statuses]]
    /\ records = <<>>
    /\ opening = [a \in DOMAIN accounts |-> accounts[a].Balance]
    /\ workload \in {AnyWorkload} \cup RaceWorkloads
    /\ pc = [p \in Requests |-> "idle"]
    /\ account = [p \in Requests |-> NoAccount]
    /\ transaction = [p \in Requests |-> NoTransaction]
    /\ err = [p \in Requests |-> "nil"]
    /\ lock = [p \in Requests |-> "NONE"]
    /\ journal = [p \in Requests |-> {}]
    /\ outcome = [p \in Requests |-> NoResponse]

\* Requests are numbered in the order their handlers start.
Arrives(p) == pc[p] = "idle" /\ \A q \in 1..(p - 1) : pc[q] # "idle"

\* lines 554-566: the bound type is not one of validTypes
RejectType(p, a, t, m) ==
    /\ Arrives(p)
    /\ <<a, t, m>> \in Inputs
    /\ ~contains(validTypes, t)
    /\ pc' = [pc EXCEPT ![p] = "done"]
    /\ outcome' = [outcome EXCEPT ![p] =
          Response(StatusBadRequest, "Invalid transaction type",
                   NoTransaction)]
    /\ UNCHANGED <<accounts, records, opening, workload, account,
                   transaction, err, lock, journal>>

\* the amount check of lines 569-572 placed before the type check
RejectAmountFirst(p, a, t, m) ==
    /\ Arrives(p)
    /\ <<a, t, m>> \in Inputs
    /\ AmountInvalid(m)
    /\ pc' = [pc EXCEPT ![p] = "done"]
    /\ outcome' = [outcome EXCEPT ![p] =
          Response(StatusBadRequest, "Transaction amount must be positive",
                   NoTransaction)]
    /\ UNCHANGED <<accounts, records, opening, workload, account,
                   transaction, err, lock, journal>>

\* lines 554-572: the bound amount is not positive
RejectAmount(p, a, t, m) ==
    /\ Arrives(p)
    /\ <<a, t, m>> \in Inputs
    /\ contains(validTypes, t)
    /\ AmountInvalid(m)
    /\ pc' = [pc EXCEPT ![p] = "done"]
    /\ outcome' = [outcome EXCEPT ![p] =
          Response(StatusBadRequest, "Transaction amount must be positive",
                   NoTransaction)]
    /\ UNCHANGED <<accounts, records, opening, workload, account,
                   transaction, err, lock, journal>>

\* lines 554-575: a valid request; db.Transaction takes a pooled connection
\* and opens a deferred transaction (no file lock yet)
Begin(p, a, t, m) ==
    /\ Arrives(p)
    /\ <<a, t, m>> \in Inputs
    /\ contains(validTypes, t)
    /\ ~AmountInvalid(m)
    /\ ConnAvailable
    /\ \E c \in ClientTransactionIDs :
          transaction' = [transaction EXCEPT ![p] =
             [NoTransaction EXCEPT !.AccountID = a, !.TransactionType = t,
                                   !.Amount = m, !.TransactionID = c]]
    /\ pc' = [pc EXCEPT ![p] = "first"]
    /\ UNCHANGED <<accounts, records, opening, workload, account, err, lock,
                   journal, outcome>>

\* lines 578-580: tx.First(&account, transaction.AccountID)
First(p) ==
    /\ pc[p] = "first"
    /\ CanShare(p)
    /\ lock' = LockAfterFirst(p)
    /\ account' = [account EXCEPT ![p] = Row(transaction[p].AccountID)]
    /\ IF FirstError(transaction[p].AccountID) = "nil"
       THEN /\ pc' = [pc EXCEPT ![p] = "process"]
            /\ err' = err
       ELSE /\ pc' = [pc EXCEPT ![p] = "rollback"]
            /\ err' = [err EXCEPT ![p] =
                          FirstError(transaction[p].AccountID)]
    /\ UNCHANGED <<accounts, records, opening, workload, transaction,
                   journal, outcome>>

\* lines 582-608: status check, balance effect, generated transaction id
Process(p) ==
    /\ pc[p] = "process"
    /\ IF StatusBlocks(transaction[p].TransactionType, account[p].Status)
       THEN /\ err' = [err EXCEPT ![p] = "ErrInvalidData"]
            /\ pc' = [pc EXCEPT ![p] = "rollback"]
            /\ UNCHANGED <<account, transaction>>
       ELSE IF Insufficient(transaction[p].TransactionType,
                            account[p].Balance, transaction[p].Amount)
       THEN /\ err' = [err EXCEPT ![p] = "ErrInvalidData"]
            /\ pc' = [pc EXCEPT ![p] = "rollback"]
            /\ transaction' = [transaction EXCEPT
                  ![p].BalanceBefore = account[p].Balance]
            /\ UNCHANGED account
       ELSE /\ \E id \in TxnIDs :
                  transaction' = [transaction EXCEPT
                     ![p].BalanceBefore = account[p].Balance,
                     ![p].BalanceAfter =
                         applyEffect(account[p].Balance,
                                     transaction[p].TransactionType,
                                     transaction[p].Amount),
                     ![p].TransactionID =
                         assignTransactionID(transaction[p].TransactionID,
                                             id)]
            /\ account' = [account EXCEPT ![p].Balance =
                  applyEffect(account[p].Balance,
                              transaction[p].TransactionType,
                              transaction[p].Amount)]
            /\ pc' = [pc EXCEPT ![p] = "save"]
            /\ err' = err
    /\ UNCHANGED <<accounts, records, opening, workload, lock, journal,
                   outcome>>

\* a store whose UPDATE waits for the write lock instead of failing at once
SaveWaits(p) ==
    /\ pc[p] = "save"
    /\ CanReserve(p)
    /\ lock' = [lock EXCEPT ![p] = "RESERVED"]
    /\ journal' = [journal EXCEPT ![p] = @ \cup {"accounts"}]
    /\ pc' = [pc EXCEPT ![p] = "create"]
    /\ UNCHANGED <<accounts, records, opening, workload, account,
                   transaction, err, outcome>>

\* db.Save instead of tx.Save: the row is written and committed at once
SaveOutsideTx(p) ==
    /\ pc[p] = "save"
    /\ IF CanReserve(p) /\ CanExclude(p)
       THEN /\ accounts' = [accounts EXCEPT ![account[p].ID] =
                  [Balance |-> account[p].Balance,
                   Status |-> account[p].Status]]
            /\ pc' = [pc EXCEPT ![p] = "create"]
            /\ err' = err
       ELSE /\ err' = [err EXCEPT ![p] = "SQLITE_BUSY"]
            /\ pc' = [pc EXCEPT ![p] = "rollback"]
            /\ UNCHANGED accounts
    /\ UNCHANGED <<records, opening, workload, account, transaction, lock,
                   journal, outcome>>

\* lines 611-613: tx.Save(&account)
Save(p) ==
    /\ pc[p] = "save"
    /\ IF CanReserve(p)
       THEN /\ lock' = [lock EXCEPT ![p] = "RESERVED"]
            /\ journal' = [journal EXCEPT ![p] = @ \cup {"accounts"}]
            /\ pc' = [pc EXCEPT ![p] = "create"]
            /\ err' = err
       ELSE /\ err' = [err EXCEPT ![p] = "SQLITE_BUSY"]
            /\ pc' = [pc EXCEPT ![p] = "rollback"]
            /\ UNCHANGED <<lock, journal>>
    /\ UNCHANGED <<accounts, records, opening, workload, account,
                   transaction, outcome>>

\* tx.Create(&transaction) with its error ignored
CreateUnchecked(p) ==
    /\ pc[p] = "create"
    /\ IF UniqueTransactionID(transaction[p].TransactionID)
       THEN /\ journal' = [journal EXCEPT ![p] = @ \cup {"transactions"}]
            /\ transaction' = [transaction EXCEPT
                  ![p].ID = Len(records) + 1]
       ELSE UNCHANGED <<journal, transaction>>
    /\ pc' = [pc EXCEPT ![p] = "commit"]
    /\ UNCHANGED <<accounts, records, opening, workload, account, lock,
                   outcome, err>>

\* lines 616-618: tx.Create(&transaction); transaction_id has a unique index
Create(p) ==
    /\ pc[p] = "create"
    /\ IF UniqueTransactionID(transaction[p].TransactionID)
       THEN /\ journal' = [journal EXCEPT ![p] = @ \cup {"transactions"}]
            /\ transaction' = [transaction EXCEPT
                  ![p].ID = Len(records) + 1]
            /\ pc' = [pc EXCEPT ![p] = "commit"]
            /\ err' = err
       ELSE /\ err' = [err EXCEPT ![p] = "UNIQUE constraint failed"]
            /\ pc' = [pc EXCEPT ![p] = "rollback"]
            /\ UNCHANGED <<journal, transaction>>
    /\ UNCHANGED <<accounts, records, opening, workload, account, lock,
                   outcome>>

\* lines 620-621: the closure returned nil, COMMIT takes the PENDING lock
CommitPending(p) ==
    /\ pc[p] = "commit"
    /\ lock' = [lock EXCEPT ![p] = "PENDING"]
    /\ pc' = [pc EXCEPT ![p] = "sync"]
    /\ UNCHANGED <<accounts, records, opening, workload, account,
                   transaction, err, journal, outcome>>

\* tx.Save replaced by an UPDATE of the balance column without its WHERE
CommitUpdatesEveryRow(p) ==
    /\ pc[p] = "sync"
    /\ CanExclude(p)
    /\ accounts' = IF "accounts" \in journal[p]
                   THEN [b \in DOMAIN accounts |->
                            [Balance |-> account[p].Balance,
                             Status |-> accounts[b].Status]]
                   ELSE accounts
    /\ records' = IF "transactions" \in journal[p]
                  THEN Append(records, transaction[p])
                  ELSE records
    /\ lock' = [lock EXCEPT ![p] = "NONE"]
    /\ journal' = [journal EXCEPT ![p] = {}]
    /\ outcome' = [outcome EXCEPT ![p] = SuccessResponse(transaction[p])]
    /\ pc' = [pc EXCEPT ![p] = "done"]
    /\ account' = [account EXCEPT ![p] = NoAccount]
    /\ transaction' = [transaction EXCEPT ![p] = NoTransaction]
    /\ UNCHANGED <<opening, workload, err>>

\* lines 621, 636-639: COMMIT completes, 201 with the transaction
Commit(p) ==
    /\ pc[p] = "sync"
    /\ CanExclude(p)
    /\ accounts' = IF "accounts" \in journal[p]
                   THEN [accounts EXCEPT ![account[p].ID] =
                            [Balance |-> account[p].Balance,
                             Status |-> account[p].Status]]
                   ELSE accounts
    /\ records' = IF "transactions" \in journal[p]
                  THEN Append(records, transaction[p])
                  ELSE records
    /\ lock' = [lock EXCEPT ![p] = "NONE"]
    /\ journal' = [journal EXCEPT ![p] = {}]
    /\ outcome' = [outcome EXCEPT ![p] = SuccessResponse(transaction[p])]
    /\ pc' = [pc EXCEPT ![p] = "done"]
    /\ account' = [account EXCEPT ![p] = NoAccount]
    /\ transaction' = [transaction EXCEPT ![p] = NoTransaction]
    /\ UNCHANGED <<opening, workload, err>>

\* the failed request also deletes "its" row by transaction_id to clean up
RollbackCompensating(p) ==
    /\ pc[p] = "rollback"
    /\ lock' = [lock EXCEPT ![p] = "NONE"]
    /\ journal' = [journal EXCEPT ![p] = {}]
    /\ outcome' = [outcome EXCEPT ![p] = ErrorResponse(err[p])]
    /\ pc' = [pc EXCEPT ![p] = "done"]
    /\ account' = [account EXCEPT ![p] = NoAccount]
    /\ transaction' = [transaction EXCEPT ![p] = NoTransaction]
    /\ err' = [err EXCEPT ![p] = "nil"]
    /\ records' = SelectSeq(records,
          LAMBDA r : r.TransactionID # transaction[p].TransactionID)
    /\ UNCHANGED <<accounts, opening, workload>>

\* lines 621-634: the closure returned an error, ROLLBACK, error response
Rollback(p) ==
    /\ pc[p] = "rollback"
    /\ lock' = [lock EXCEPT ![p] = "NONE"]
    /\ journal' = [journal EXCEPT ![p] = {}]
    /\ outcome' = [outcome EXCEPT ![p] = ErrorResponse(err[p])]
    /\ pc' = [pc EXCEPT ![p] = "done"]
    /\ account' = [account EXCEPT ![p] = NoAccount]
    /\ transaction' = [transaction EXCEPT ![p] = NoTransaction]
    /\ err' = [err EXCEPT ![p] = "nil"]
    /\ UNCHANGED <<accounts, records, opening, workload>>

Next ==
    \E p \in Requests :
        \/ \E a \in AccountIDs, t \in RequestTypes, m \in Amounts :
              RejectType(p, a, t, m)
        \/ \E a \in AccountIDs, t \in RequestTypes, m \in Amounts :
              RejectAmount(p, a, t, m)
        \/ \E a \in AccountIDs, t \in RequestTypes, m \in Amounts :
              Begin(p, a, t, m)
        \/ First(p)
        \/ Process(p)
        \/ Save(p)
        \/ Create(p)
        \/ CommitPending(p)
        \/ Commit(p)
        \/ Rollback(p)

Spec == Init /\ [][Next]_vars

\* Every handler runs in its own goroutine and each statement it issues
\* returns: a started request keeps taking its steps, and a statement that
\* waits for a lock is retried until the lock is free.  Clients are free to
\* send nothing.
Fairness ==
    \A p \in Requests :
        /\ WF_vars(First(p))
        /\ WF_vars(Process(p))
        /\ WF_vars(Save(p))
        /\ WF_vars(Create(p))
        /\ WF_vars(CommitPending(p))
        /\ WF_vars(Commit(p))
        /\ WF_vars(Rollback(p))

FairSpec == Spec /\ Fairness

\* ======================= properties =======================
Debits == {"withdrawal", "transfer", "payment"}
EnumeratedTypes == {"deposit", "withdrawal", "transfer", "payment"}

\* the effect table of the specification
EffectTable(before, type, amount) ==
    IF type = "deposit" THEN before + amount ELSE before - amount

StepOf(p) == pc'[p] # pc[p]
Responds(p) == pc[p] # "done" /\ pc'[p] = "done"
Receive(p, a, t, m) ==
    RejectType(p, a, t, m) \/ RejectAmount(p, a, t, m) \/ Begin(p, a, t, m)
Succeeded == {p \in Requests : outcome[p].status = StatusCreated}
RecordsOf(a) == {i \in 1..Len(records) : records[i].AccountID = a}

\* C1: NumRequests concurrent withdrawals of amount A from one active account
\* with balance B end with exactly floor(B/A) successes, every other request
\* failing with InsufficientFunds, and a final balance of B - floor(B/A)*A.
C1_RaceOutcome ==
    ( /\ workload.kind = "race"
      /\ \A p \in Requests : pc[p] = "done"
      /\ workload.AccountID \in DOMAIN accounts
      /\ accounts[workload.AccountID].Status = "active"
      /\ opening[workload.AccountID] \div workload.Amount <= NumRequests )
    => LET B == opening[workload.AccountID]
           A == workload.Amount
       IN /\ Cardinality(Succeeded) = B \div A
          /\ \A p \in Requests \ Succeeded : outcome[p] = InsufficientFunds
          /\ accounts[workload.AccountID].Balance = B - (B \div A) * A

C3_RecordsFollowTable ==
    \A i \in 1..Len(records) :
        /\ records[i].TransactionType \in EnumeratedTypes
        /\ records[i].BalanceAfter =
              EffectTable(records[i].BalanceBefore,
                          records[i].TransactionType, records[i].Amount)

C3_Accepted(p) ==
    /\ pc[p] = "process"
    /\ account[p].Status = "active"
    /\ \/ transaction[p].TransactionType = "deposit"
       \/ /\ transaction[p].TransactionType \in Debits
          /\ account[p].Balance >= transaction[p].Amount

C3_EffectTable ==
    /\ []C3_RecordsFollowTable
    /\ [][\A p \in Requests :
            (C3_Accepted(p) /\ StepOf(p))
            => /\ pc'[p] = "save"
               /\ transaction'[p].BalanceBefore = account[p].Balance
               /\ transaction'[p].BalanceAfter =
                     EffectTable(account[p].Balance,
                                 transaction[p].TransactionType,
                                 transaction[p].Amount)
               /\ account'[p].Balance = transaction'[p].BalanceAfter]_vars

C3_Witness ==
    \E i \in 1..Len(records) :
        /\ records[i].TransactionType \in Debits
        /\ records[i].Amount = records[i].BalanceBefore
        /\ records[i].BalanceAfter = 0

\* C4: the balance update and the record commit together or not at all; when
\* tx.Save or tx.Create fails the request answers StorageError and the
\* tables are what they were when the request read the account.
C4_StorageFailed(p) ==
    /\ pc[p] = "rollback"
    /\ err[p] \in {"SQLITE_BUSY", "UNIQUE constraint failed"}

C4_AllOrNothing ==
    [][/\ (accounts' # accounts) <=> (records' # records)
       /\ \A p \in Requests :
            (C4_StorageFailed(p) /\ StepOf(p))
            => /\ outcome'[p] = StorageError
               /\ accounts' = accounts
               /\ records' = records
               /\ accounts'[transaction[p].AccountID].Balance =
                     transaction[p].BalanceBefore]_vars

C4_Witness ==
    \E p \in Requests :
        /\ pc[p] = "rollback"
        /\ err[p] = "UNIQUE constraint failed"
        /\ "accounts" \in journal[p]

\* C5: a withdrawal, transfer or payment of more than the balance fails with
\* InsufficientFunds; no step of the request changes a balance or adds a
\* record.
C5_Underfunded(p) ==
    /\ account[p].Status = "active"
    /\ transaction[p].TransactionType \in Debits
    /\ transaction[p].Amount > account[p].Balance
    /\ \/ pc[p] = "process"
       \/ /\ pc[p] = "rollback"
          /\ transaction[p].TransactionID \notin TxnIDs

C5_InsufficientFunds ==
    [][\A p \in Requests :
          (C5_Underfunded(p) /\ StepOf(p))
          => /\ accounts' = accounts
             /\ records' = records
             /\ pc[p] = "process" => pc'[p] = "rollback"
             /\ pc[p] = "rollback"
                => /\ outcome'[p] = InsufficientFunds
                   /\ accounts'[account[p].ID].Balance = account[p].Balance
                   /\ pc'[p] = "done"]_vars

C5_Witness ==
    \E p \in Requests :
        /\ pc[p] = "rollback"
        /\ C5_Underfunded(p)
        /\ transaction[p].TransactionType = "payment"

\* C6: on an account whose status is not active every transaction type,
\* deposit included, fails with AccountNotActive; no step of the request
\* changes a balance or adds a record.
C6_Inactive(p) ==
    /\ pc[p] \in {"process", "rollback"}
    /\ account[p].ID # 0
    /\ account[p].Status # "active"

C6_AccountNotActive ==
    [][\A p \in Requests :
          (C6_Inactive(p) /\ StepOf(p))
          => /\ accounts' = accounts
             /\ records' = records
             /\ pc[p] = "process" => pc'[p] = "rollback"
             /\ pc[p] = "rollback"
                => /\ outcome'[p] = AccountNotActive
                   /\ accounts'[account[p].ID].Balance = account[p].Balance
                   /\ pc'[p] = "done"]_vars

C6_Witness ==
    \E p \in Requests :
        /\ pc[p] = "rollback"
        /\ C6_Inactive(p)
        /\ transaction[p].TransactionType = "deposit"

\* The failure causes of a request that is about to answer.
CauseNotFound(p) ==
    pc[p] = "rollback" /\ transaction[p].AccountID \notin DOMAIN accounts
CauseNotActive(p) ==
    /\ pc[p] = "rollback"
    /\ transaction[p].AccountID \in DOMAIN accounts
    /\ accounts[transaction[p].AccountID].Status # "active"
CauseInsufficient(p) ==
    /\ pc[p] = "rollback"
    /\ transaction[p].AccountID \in DOMAIN accounts
    /\ accounts[transaction[p].AccountID].Status = "active"
    /\ transaction[p].TransactionID \notin TxnIDs
    /\ transaction[p].TransactionType \in Debits
    /\ transaction[p].Amount > accounts[transaction[p].AccountID].Balance
CauseStorage(p) ==
    pc[p] = "rollback" /\ transaction[p].TransactionID \in TxnIDs

\* C7 (as stated): the outcome identifies the failure cause: AccountNotActive
\* and InsufficientFunds are two distinct outcomes, each distinct from
\* AccountNotFound and StorageError.
C7_OutcomeIdentifiesCause ==
    [][\A p \in Requests :
          (pc[p] = "rollback" /\ StepOf(p))
          => /\ outcome'[p] = AccountNotActive => CauseNotActive(p)
             /\ outcome'[p] = InsufficientFunds => CauseInsufficient(p)
             /\ outcome'[p] = AccountNotFound => CauseNotFound(p)
             /\ outcome'[p] = StorageError => CauseStorage(p)]_vars

\* C7 (amended): an inactive account and an underfunded debit are answered
\* with one and the same outcome, which tells the caller that the cause is
\* one of the two; AccountNotFound and StorageError each identify their
\* cause, and the three outcomes are pairwise distinct.
C7_OutcomeClasses ==
    [][\A p \in Requests :
          (pc[p] = "rollback" /\ StepOf(p))
          => /\ outcome'[p] \in {AccountNotActive, AccountNotFound,
                                 StorageError}
             /\ outcome'[p] = AccountNotActive
                <=> (CauseNotActive(p) \/ CauseInsufficient(p))
             /\ outcome'[p] = InsufficientFunds
                <=> (CauseNotActive(p) \/ CauseInsufficient(p))
             /\ outcome'[p] = AccountNotFound <=> CauseNotFound(p)
             /\ outcome'[p] = StorageError <=> CauseStorage(p)
             /\ AccountNotFound # StorageError
             /\ AccountNotFound # AccountNotActive
             /\ StorageError # AccountNotActive]_vars

C7_Witness ==
    \E p, q \in Requests :
        /\ CauseNotActive(p)
        /\ CauseInsufficient(q)

\* C8: a request with a valid type and an amount <= 0 fails with
\* InvalidAmount in its first step, which touches neither table nor takes a
\* connection.
C8_InvalidAmount ==
    [][\A p \in Requests, a \in AccountIDs, t \in EnumeratedTypes,
          m \in Amounts :
          (m <= 0 /\ Receive(p, a, t, m))
          => /\ outcome'[p] = InvalidAmount
             /\ pc'[p] = "done"
             /\ accounts' = accounts
             /\ records' = records
             /\ lock' = lock
             /\ journal' = journal]_vars

C8_Witness ==
    \E p \in Requests : pc[p] = "done" /\ outcome[p] = InvalidAmount

\* C9: a request whose type is not exactly one of deposit, withdrawal,
\* transfer, payment fails with InvalidTransactionType in its first step,
\* which touches neither table nor takes a connection.
C9_InvalidType ==
    [][\A p \in Requests, a \in AccountIDs, t \in RequestTypes,
          m \in Amounts :
          (t \notin EnumeratedTypes /\ Receive(p, a, t, m))
          => /\ outcome'[p] = InvalidTransactionType
             /\ pc'[p] = "done"
             /\ accounts' = accounts
             /\ records' = records
             /\ lock' = lock
             /\ journal' = journal]_vars

C9_Witness ==
    \E p \in Requests : pc[p] = "done" /\ outcome[p] = InvalidTransactionType

\* C10: a valid request for an account id that has no row fails with
\* AccountNotFound; no step of the request changes a balance or adds a
\* record.
C10_Missing(p) ==
    /\ pc[p] \in {"first", "process", "save", "create", "commit", "sync",
                  "rollback"}
    /\ transaction[p].AccountID \notin DOMAIN accounts

C10_AccountNotFound ==
    [][\A p \in Requests :
          (C10_Missing(p) /\ StepOf(p))
          => /\ accounts' = accounts
             /\ records' = records
             /\ pc[p] \in {"first", "rollback"}
             /\ pc[p] = "first" => pc'[p] = "rollback"
             /\ pc[p] = "rollback"
                => /\ pc'[p] = "done"
                   /\ outcome'[p] = AccountNotFound]_vars

C10_Witness ==
    \E p \in Requests : pc[p] = "done" /\ outcome[p] = AccountNotFound
\* C11: a successful CreateTransaction on account a changes the balance of a
\* only and adds exactly one record, which references a; the balance and
\* status of every other account, the status of a and every record persisted
\* before are unchanged (also for transfer and payment, which credit no
\* account); no other step of a request touches the store.
C11_Success(p) ==
    StepOf(p) /\ pc'[p] = "done" /\ outcome'[p].status = StatusCreated

C12_OtherAccountsOnly(p) ==
    /\ InTx(p)
    /\ \A q \in Others(p) :
          InTx(q) => transaction[q].AccountID # transaction[p].AccountID

C12_Independent ==
    /\ [](\A p \in Requests :
            C12_OtherAccountsOnly(p)
            => /\ pc[p] = "first" => CanShare(p)
               /\ pc[p] = "sync" => CanExclude(p))
    /\ [][\A p \in Requests :
            (C12_OtherAccountsOnly(p) /\ pc[p] = "save" /\ StepOf(p))
            => pc'[p] = "create"]_vars

\* C13: any two distinct persisted records have distinct transaction
\* identifiers, and the identifier of a persisted record is one generated
\* while the request was processed, never the transaction_id the client sent.
C13_UniqueGeneratedID ==
    /\ \A i, j \in 1..Len(records) :
          i # j => records[i].TransactionID # records[j].TransactionID
    /\ \A i \in 1..Len(records) :
          /\ records[i].TransactionID \in TxnIDs
          /\ records[i].TransactionID \notin ClientTransactionIDs

C13_Witness ==
    /\ Len(records) = NumRequests
    /\ {records[i].TransactionID : i \in 1..Len(records)} = TxnIDs
    /\ \E i \in 1..Len(records) : records[i].TransactionType = "deposit"

\* C14: once a record is persisted no later step changes or removes it: its
\* id, transaction identifier, account, type, amount, balanceBefore and
\* balanceAfter are the same in every later state.
C14_RecordsImmutable ==
    [][/\ Len(records') >= Len(records)
       /\ \A i \in 1..Len(records) :
             /\ records'[i].ID = records[i].ID
             /\ records'[i].TransactionID = records[i].TransactionID
             /\ records'[i].AccountID = records[i].AccountID
             /\ records'[i].TransactionType = records[i].TransactionType
             /\ records'[i].Amount = records[i].Amount
             /\ records'[i].BalanceBefore = records[i].BalanceBefore
             /\ records'[i].BalanceAfter = records[i].BalanceAfter]_vars

\* a debit was persisted and a later request on its account has committed
C14_Witness ==
    /\ Len(records) = NumRequests
    /\ records[1].AccountID = records[NumRequests].AccountID
    /\ records[1].TransactionType \in Debits
    /\ \A p \in Requests : pc[p] = "done"

\* C15: every CreateTransaction invocation that has started its unit of work
\* eventually answers, with the unit of work committed or rolled back, also
\* when several invocations run concurrently on the same account; none waits
\* forever on another.
C15_Terminates ==
    \A p \in Requests : InTx(p) ~> (pc[p] = "done" /\ lock[p] = "NONE")

\* a COMMIT waits for a concurrent request on the same account
C15_Witness ==
    \E p \in Requests, q \in Requests :
        /\ p # q
        /\ pc[p] = "sync"
        /\ ~CanExclude(p)
        /\ lock[q] = "SHARED"
        /\ transaction[q].AccountID = transaction[p].AccountID

\* C16: an invocation reports success exactly when its unit of work
\* committed, and the record it returns is the persisted record, carrying the
\* generated identifier and the balanceBefore and balanceAfter written by
\* that unit of work.
C16_Committed(p) ==
    /\ Len(records') = Len(records) + 1
    /\ records'[Len(records')].AccountID = transaction[p].AccountID
    /\ accounts' # accounts

C16_SuccessIffCommitted ==
    [][\A p \in Requests :
          Responds(p)
          => /\ outcome'[p].status = StatusCreated <=> C16_Committed(p)
             /\ outcome'[p].status # StatusCreated => store' = store
             /\ outcome'[p].status = StatusCreated
                => LET r == outcome'[p].transaction
                   IN /\ r = records'[Len(records')]
                      /\ r.TransactionID \in TxnIDs
                      /\ r.BalanceBefore = accounts[r.AccountID].Balance
                      /\ r.BalanceAfter = accounts'[r.AccountID].Balance]_vars

\* one request was answered with its persisted record, another with a
\* storage error
C16_Witness ==
    \E p \in Requests, q \in Requests :
        /\ outcome[p].status = StatusCreated
        /\ outcome[p].transaction = records[Len(records)]
        /\ outcome[q] = StorageError
        /\ Len(records) = 1

\* C17: the checks run in a fixed order - type, amount, then inside the unit
\* of work account existence, account status, sufficient funds - and the
\* error reported is that of the first check that fails; a type or amount
\* failure is answered without any read or write of the store.
C17_NoStoreAccess(p) ==
    /\ store' = store
    /\ lock' = lock
    /\ journal' = journal
    /\ account' = account
    /\ pc'[p] = "done"

C17_Validation(p, a, t, m) ==
    /\ t \notin EnumeratedTypes
       => outcome'[p] = InvalidTransactionType /\ C17_NoStoreAccess(p)
    /\ (t \in EnumeratedTypes /\ m <= 0)
       => outcome'[p] = InvalidAmount /\ C17_NoStoreAccess(p)
    /\ (t \in EnumeratedTypes /\ m > 0)
       => pc'[p] = "first" /\ outcome'[p] = NoResponse

C17_UnitOfWork(p) ==
    LET a == transaction[p].AccountID
        underfunded == /\ transaction[p].TransactionType \in Debits
                       /\ transaction[p].Amount > account[p].Balance
    IN /\ (pc[p] = "first" /\ a \notin DOMAIN accounts)
          => err'[p] = "ErrRecordNotFound" /\ pc'[p] = "rollback"
       /\ (pc[p] = "first" /\ a \in DOMAIN accounts)
          => err'[p] = "nil" /\ pc'[p] = "process"
       /\ (pc[p] = "process" /\ account[p].Status # "active")
          => /\ err'[p] = "ErrInvalidData" /\ pc'[p] = "rollback"
             /\ transaction'[p] = transaction[p]
       /\ (pc[p] = "process" /\ account[p].Status = "active" /\ underfunded)
          => /\ err'[p] = "ErrInvalidData" /\ pc'[p] = "rollback"
             /\ transaction'[p].BalanceBefore = account[p].Balance
       /\ (pc[p] = "process" /\ account[p].Status = "active"
             /\ ~underfunded)
          => err'[p] = "nil" /\ pc'[p] = "save"
       /\ (pc[p] = "rollback" /\ err[p] = "ErrRecordNotFound")
          => outcome'[p] = AccountNotFound
       /\ (pc[p] = "rollback" /\ err[p] = "ErrInvalidData")
          => outcome'[p] = InsufficientFunds

C17_CheckOrder ==
    [][\A p \in Requests :
          /\ \A a \in AccountIDs, t \in RequestTypes, m \in Amounts :
                Receive(p, a, t, m) => C17_Validation(p, a, t, m)
          /\ StepOf(p) => C17_UnitOfWork(p)]_vars

\* one request failed the type check; another, an underfunded debit on an
\* inactive account, failed the status check before its funds were compared
C17_Witness ==
    \E p \in Requests, q \in Requests :
        /\ outcome[q] = InvalidTransactionType
        /\ pc[p] = "rollback"
        /\ err[p] = "ErrInvalidData"
        /\ account[p].Status = "inactive"
        /\ transaction[p].TransactionType \in Debits
        /\ transaction[p].Amount > account[p].Balance

\* C18: no committed withdrawal, transfer or payment has a balanceAfter
\* below zero, and an account whose balance was not negative at the start
\* never has a negative balance, whatever the interleaving.
C18_NonNegative ==
    /\ \A i \in 1..Len(records) :
          records[i].TransactionType \in Debits
          => records[i].BalanceAfter >= 0
    /\ \A a \in DOMAIN accounts :
          opening[a] >= 0 => accounts[a].Balance >= 0

\* a debit has emptied an account and a second debit of that account was
\* refused for lack of funds
C18_Witness ==
    \E p \in Requests :
        /\ Len(records) = 1
        /\ records[1].TransactionType \in Debits
        /\ records[1].BalanceAfter = 0
        /\ accounts[records[1].AccountID].Balance = 0
        /\ pc[p] = "rollback"
        /\ err[p] = "ErrInvalidData"
        /\ account[p].Status = "active"
        /\ transaction[p].AccountID = records[1].AccountID
        /\ transaction[p].TransactionType \in Debits

\* C19: ledger conservation: the balance of every account equals the balance
\* it started with plus the amounts of its persisted deposits minus the
\* amounts of its persisted withdrawals, transfers and payments.
RECURSIVE C19_Net(_, _)
C19_Net(a, n) ==
    IF n = 0 THEN 0
    ELSE C19_Net(a, n - 1)
         + (IF records[n].AccountID # a THEN 0
            ELSE IF records[n].TransactionType = "deposit"
            THEN records[n].Amount
            ELSE IF records[n].TransactionType \in Debits
            THEN 0 - records[n].Amount
            ELSE 0)

====
